---- MODULE Spec2Model ----
\* Checkpoint fragment transport and verification of
\* crates/sui-types/src/messages_checkpoint.rs.
\*
\* Byte strings (Vec<u8>, &[u8]) are kept run-length encoded: a sequence of
\* runs [b |-> value, n |-> count], n > 0, adjacent runs of different value.
\* Every byte string has exactly one such form, so equality of forms is
\* equality of byte strings, and a payload of several million bytes is a
\* sequence of a few runs.  A "byte" of the model stands for one fixed-width
\* field of the bincode encoding (a key, a digest, a u64 length prefix).
EXTENDS Integers, Sequences, FiniteSets, TLC

VARIABLES
    fragment,     \* sender: the CheckpointFragment handed to to_message_chunks
    messages,     \* sender: Vec<CheckpointFragmentMessage> returned, <<>> before the call
    partial,      \* receiver: the PartialCheckpointFragment, None before new()
    last_chunk,   \* receiver: the chunk of the last add_chunk call, None before
    add_result,   \* receiver: SuiResult of the last add_chunk call
    overwrote,    \* history: the last add_chunk replaced other content at its index
    consumed,     \* receiver: the buffer moved into to_fragment(self), None before
    frag_result,  \* receiver: SuiResult<CheckpointFragment> of to_fragment
    from_header,  \* receiver: the Header the buffer was created from, None before
    foreign,      \* history: add_chunk was called with a chunk the sender did not emit
    proposals,    \* verification: the pair of CheckpointProposals
    vfragment,    \* verification: the CheckpointFragment under verify, None before
    edits,        \* verification: fields of the fragment rewritten since it was built
    vresult,      \* verification: SuiResult of CheckpointFragment::verify
    agg_committee,      \* certificates: the Committee handed to aggregate
    signed_checkpoints, \* certificates: the Vec<SignedCheckpointSummary> collected
    built_from,         \* history: the CheckpointContents each summary was built from
    aggregate_result,   \* certificates: SuiResult of aggregate, None before the call
    verify_call,        \* certificates: the last verify call and its SuiResult
    prop_input,         \* proposals: the digests handed to CheckpointProposalContents::new
    prop_proposal,      \* proposals: the CheckpointProposal built from them, None before
    prop_call,          \* proposals: the last verify call and its SuiResult
    chunk_signer,       \* signed messages: the signer handed to to_signed_message_chunks
    signed_messages,    \* signed messages: the Vec<SignedCheckpointFragmentMessage>
    message_call        \* signed messages: the last verify call and its SuiResult

vars == <<fragment, messages, partial, last_chunk, add_result, overwrote,
          consumed, frag_result, from_header, foreign,
          proposals, vfragment, edits, vresult,
          agg_committee, signed_checkpoints, built_from, aggregate_result,
          verify_call, prop_input, prop_proposal, prop_call,
          chunk_signer, signed_messages, message_call>>

transportVars == <<fragment, messages, partial, last_chunk, add_result,
                   overwrote, consumed, frag_result, from_header, foreign>>

verifyVars == <<proposals, vfragment, edits, vresult>>

certVars == <<agg_committee, signed_checkpoints, built_from, aggregate_result,
              verify_call>>

proposalVars == <<prop_input, prop_proposal, prop_call>>

signedVars == <<chunk_signer, signed_messages, message_call>>

None == [none |-> TRUE]

Ok == [ok |-> TRUE]

Err(msg) == [ok |-> FALSE, error |-> msg]

OkVal(v) == [ok |-> TRUE, value |-> v]

SetMin(S) == CHOOSE x \in S : \A y \in S : x <= y

-----------------------------------------------------------------------------
\* Byte strings.

Run(b, n) == [b |-> b, n |-> n]

Word(x) == <<Run(x, 1)>>

RECURSIVE BLen(_)
BLen(bs) == IF bs = <<>> THEN 0 ELSE Head(bs).n + BLen(Tail(bs))

BCat(x, y) ==
    IF x = <<>> THEN y
    ELSE IF y = <<>> THEN x
    ELSE IF x[Len(x)].b = y[1].b
         THEN SubSeq(x, 1, Len(x) - 1)
              \o <<Run(y[1].b, x[Len(x)].n + y[1].n)>>
              \o Tail(y)
         ELSE x \o y

RECURSIVE BTake(_, _)
BTake(bs, k) ==
    IF k = 0 \/ bs = <<>> THEN <<>>
    ELSE IF Head(bs).n <= k
         THEN BCat(<<Head(bs)>>, BTake(Tail(bs), k - Head(bs).n))
         ELSE <<Run(Head(bs).b, k)>>

RECURSIVE BDrop(_, _)
BDrop(bs, k) ==
    IF k = 0 \/ bs = <<>> THEN bs
    ELSE IF Head(bs).n <= k
         THEN BDrop(Tail(bs), k - Head(bs).n)
         ELSE <<Run(Head(bs).b, Head(bs).n - k)>> \o Tail(bs)

RECURSIVE BConcat(_)
BConcat(seq) == IF seq = <<>> THEN <<>> ELSE BCat(Head(seq), BConcat(Tail(seq)))

\* 3 MB.
FRAGMENT_CHUNK_SIZE == 3 * 1000 * 1000

\* Mutant of Chunks: only the full slices, as slice::chunks_exact gives them.
RECURSIVE ChunksExact(_, _)
ChunksExact(bs, size) ==
    IF BLen(bs) < size THEN <<>>
    ELSE <<BTake(bs, size)>> \o ChunksExact(BDrop(bs, size), size)

\* slice::chunks(size): consecutive slices of `size` bytes, the last one
\* shorter when the length is no multiple of size; none for an empty slice.
RECURSIVE Chunks(_, _)
Chunks(bs, size) ==
    IF bs = <<>> THEN <<>>
    ELSE <<BTake(bs, size)>> \o Chunks(BDrop(bs, size), size)

-----------------------------------------------------------------------------
\* Identities, digests, signatures and the committee.

\* AuthorityName values; authority 3 holds no stake in the committee.
Names == 1 .. 3

\* ExecutionDigests values.
Digests == 1 .. 2

\* Committee: its epoch and the voting rights of its members.
committee == [epoch |-> 0, voting_rights |-> (1 :> 1) @@ (2 :> 1)]

weight(c, name) ==
    IF name \in DOMAIN c.voting_rights THEN c.voting_rights[name] ELSE 0

\* AuthoritySignature::new(value, epoch, signer): an unforgeable signature
\* is the record of who signed what for which epoch.
AuthoritySignature_new(value, epoch, signer) ==
    [key |-> signer, epoch |-> epoch, msg |-> value]

\* AuthoritySignature::verify(value, epoch, author)
AuthoritySignature_verify(sig, value, epoch, author) ==
    sig.key = author /\ sig.epoch = epoch /\ sig.msg = value

\* AuthoritySignInfo::new(epoch, value, authority, signer)
AuthoritySignInfo_new(epoch, value, authority, signer) ==
    [epoch |-> epoch, authority |-> authority,
     signature |-> AuthoritySignature_new(value, epoch, signer)]

\* AuthoritySignInfo::verify(data, committee)
AuthoritySignInfo_verify(info, data, c) ==
    IF info.epoch # c.epoch THEN Err("WrongEpoch")
    ELSE IF weight(c, info.authority) = 0 THEN Err("UnknownSigner")
    ELSE IF ~AuthoritySignature_verify(info.signature, data, info.epoch,
                                       info.authority)
         THEN Err("InvalidSignature")
    ELSE Ok

\* sha3_hash of a set of digests: collision free, so one number per set.
RECURSIVE sha3_hash(_)
sha3_hash(set) ==
    IF set = {} THEN 0
    ELSE LET d == SetMin(set) IN 2 ^ (d - 1) + sha3_hash(set \ {d})

\* Waypoint: an accumulator of the inserted items, counted with multiplicity.
Waypoint_default == 0

Waypoint_insert(w, d) == w + 4 ^ (d - 1)

RECURSIVE Waypoint_insert_all(_, _)
Waypoint_insert_all(w, items) ==
    IF items = <<>> THEN w
    ELSE Waypoint_insert_all(Waypoint_insert(w, Head(items)), Tail(items))

\* The elements of a BTreeSet in iteration (ascending) order.
RECURSIVE BTreeSet_iter(_)
BTreeSet_iter(set) ==
    IF set = {} THEN <<>>
    ELSE LET d == SetMin(set) IN <<d>> \o BTreeSet_iter(set \ {d})

\* The orders in which a HashSet's iterator may yield its elements.
RECURSIVE HashSet_iter(_)
HashSet_iter(set) ==
    IF set = {} THEN {<<>>}
    ELSE UNION {{<<d>> \o rest : rest \in HashSet_iter(set \ {d})} : d \in set}

-----------------------------------------------------------------------------
\* Proposals.

CheckpointProposalSummary_new(sequence_number, transactions) ==
    [sequence_number |-> sequence_number,
     waypoint |-> Waypoint_insert_all(Waypoint_default,
                                      BTreeSet_iter(transactions)),
     content_digest |-> sha3_hash(transactions)]

CheckpointProposal_new(epoch, sequence_number, authority, signer, transactions) ==
    LET proposal_summary ==
            CheckpointProposalSummary_new(sequence_number, transactions)
    IN [signed_summary |->
            [summary |-> proposal_summary,
             auth_signature |->
                 AuthoritySignInfo_new(epoch, proposal_summary, authority, signer)],
        transactions |-> transactions]

\* SignedCheckpointProposalSummary::authority
authority(signed) == signed.auth_signature.authority

\* CheckpointProposal::name
name(proposal) == proposal.signed_summary.auth_signature.authority

\* SignedCheckpointProposalSummary::verify(committee, None)
SignedCheckpointProposalSummary_verify(signed, c) ==
    AuthoritySignInfo_verify(signed.auth_signature, signed.summary, c)

\* WaypointDiff::new
WaypointDiff_new(first_key, first, missing_first, second_key, second, missing_second) ==
    [first |-> [key |-> first_key, waypoint |-> first,
                items |-> missing_first],
     second |-> [key |-> second_key, waypoint |-> second,
                 items |-> missing_second]]

\* WaypointDiff::check: both waypoints agree once each has its missing items.
WaypointDiff_check(diff) ==
    Waypoint_insert_all(diff.first.waypoint, diff.first.items)
        = Waypoint_insert_all(diff.second.waypoint, diff.second.items)

\* Mutant of fragment_with: each side is given the items the other side misses.
fragment_with_swapped(self, other_proposal) ==
    LET all_elements == self.transactions \cup other_proposal.transactions
    IN {[proposer |-> self.signed_summary,
         other |-> other_proposal.signed_summary,
         data |-> [diff |-> WaypointDiff_new(
                                name(self),
                                self.signed_summary.summary.waypoint,
                                iter_missing_other,
                                name(other_proposal),
                                other_proposal.signed_summary.summary.waypoint,
                                iter_missing_me),
                   certs |-> <<>>]] :
           iter_missing_me \in HashSet_iter(all_elements \ self.transactions),
           iter_missing_other \in
               HashSet_iter(all_elements \ other_proposal.transactions)}

\* Mutant of fragment_with: each side is given all the items of the other
\* proposal, not only those it misses.
fragment_with_no_difference(self, other_proposal) ==
    {[proposer |-> self.signed_summary,
      other |-> other_proposal.signed_summary,
      data |-> [diff |-> WaypointDiff_new(
                             name(self),
                             self.signed_summary.summary.waypoint,
                             iter_missing_me,
                             name(other_proposal),
                             other_proposal.signed_summary.summary.waypoint,
                             iter_missing_other),
                certs |-> <<>>]] :
        iter_missing_me \in HashSet_iter(other_proposal.transactions),
        iter_missing_other \in HashSet_iter(self.transactions)}

\* CheckpointProposal::fragment_with.  The two difference iterators run over
\* a HashSet, so the order of each item list is any order of its elements:
\* the operator gives every fragment the call can return.
fragment_with(self, other_proposal) ==
    LET all_elements == self.transactions \cup other_proposal.transactions
        my_transactions == self.transactions
        other_transactions == other_proposal.transactions
    IN {[proposer |-> self.signed_summary,
         other |-> other_proposal.signed_summary,
         data |-> [diff |-> WaypointDiff_new(
                                name(self),
                                self.signed_summary.summary.waypoint,
                                iter_missing_me,
                                name(other_proposal),
                                other_proposal.signed_summary.summary.waypoint,
                                iter_missing_other),
                   certs |-> <<>>]] :
           iter_missing_me \in HashSet_iter(all_elements \ my_transactions),
           iter_missing_other \in HashSet_iter(all_elements \ other_transactions)}

-----------------------------------------------------------------------------
\* Verification of a fragment.

\* Committee::total_votes and Committee::quorum_threshold
RECURSIVE total_votes(_, _)
total_votes(c, names) ==
    IF names = {} THEN 0
    ELSE LET a == SetMin(names)
         IN weight(c, a) + total_votes(c, names \ {a})

quorum_threshold(c) ==
    ((2 * total_votes(c, DOMAIN c.voting_rights)) \div 3) + 1

\* CertifiedTransaction::verify_signature(committee): every signer is a
\* member and the signers hold a quorum of the stake.
CertifiedTransaction_verify_signature(cert, c) ==
    IF \E a \in cert.signers : weight(c, a) = 0 THEN Err("UnknownSigner")
    ELSE IF total_votes(c, cert.signers) < quorum_threshold(c)
         THEN Err("CertificateRequiresQuorum")
    ELSE Ok

\* Mutant of verify_certs: a digest without an entry is passed over.
RECURSIVE verify_certs_skip_missing(_, _, _)
verify_certs_skip_missing(digests, certs, c) ==
    IF digests = <<>> THEN Ok
    ELSE LET digest == Head(digests)
         IN IF digest \notin DOMAIN certs
            THEN verify_certs_skip_missing(Tail(digests), certs, c)
            ELSE LET r == CertifiedTransaction_verify_signature(certs[digest], c)
                 IN IF ~r.ok THEN r
                    ELSE verify_certs_skip_missing(Tail(digests), certs, c)

\* The loop over the missing digests: the first error it meets, else Ok.
RECURSIVE verify_certs(_, _, _)
verify_certs(digests, certs, c) ==
    IF digests = <<>> THEN Ok
    ELSE LET digest == Head(digests)
         IN IF digest \notin DOMAIN certs THEN Err("Missing cert with digest")
            ELSE LET r == CertifiedTransaction_verify_signature(certs[digest], c)
                 IN IF ~r.ok THEN r
                    ELSE verify_certs(Tail(digests), certs, c)

\* Mutant of CheckpointFragment_verify: the sequence numbers are not compared.
CheckpointFragment_verify_no_sequence_check(self, c) ==
    LET proposer == SignedCheckpointProposalSummary_verify(self.proposer, c)
        other == SignedCheckpointProposalSummary_verify(self.other, c)
    IN IF ~proposer.ok THEN proposer
       ELSE IF ~other.ok THEN other
       ELSE IF ~(/\ self.data.diff.first.waypoint = self.proposer.summary.waypoint
                 /\ self.data.diff.second.waypoint = self.other.summary.waypoint
                 /\ self.data.diff.first.key = authority(self.proposer)
                 /\ self.data.diff.second.key = authority(self.other))
            THEN Err("Waypoint diff and checkpoint summary inconsistent")
       ELSE IF ~WaypointDiff_check(self.data.diff)
            THEN Err("Waypoint diff is not valid")
       ELSE verify_certs(self.data.diff.first.items \o self.data.diff.second.items,
                         self.data.certs, c)

\* Mutant of CheckpointFragment_verify: only the waypoints of the diff are
\* compared with the summaries, not its keys.
CheckpointFragment_verify_no_key_check(self, c) ==
    LET proposer == SignedCheckpointProposalSummary_verify(self.proposer, c)
        other == SignedCheckpointProposalSummary_verify(self.other, c)
    IN IF self.proposer.summary.sequence_number
             # self.other.summary.sequence_number
       THEN Err("Proposer and other have inconsistent sequence number")
       ELSE IF ~proposer.ok THEN proposer
       ELSE IF ~other.ok THEN other
       ELSE IF ~(/\ self.data.diff.first.waypoint = self.proposer.summary.waypoint
                 /\ self.data.diff.second.waypoint = self.other.summary.waypoint)
            THEN Err("Waypoint diff and checkpoint summary inconsistent")
       ELSE IF ~WaypointDiff_check(self.data.diff)
            THEN Err("Waypoint diff is not valid")
       ELSE verify_certs(self.data.diff.first.items \o self.data.diff.second.items,
                         self.data.certs, c)

\* Mutant of CheckpointFragment_verify: the self-check of the diff comes before
\* its comparison with the summaries.
CheckpointFragment_verify_check_first(self, c) ==
    LET proposer == SignedCheckpointProposalSummary_verify(self.proposer, c)
        other == SignedCheckpointProposalSummary_verify(self.other, c)
    IN IF self.proposer.summary.sequence_number
             # self.other.summary.sequence_number
       THEN Err("Proposer and other have inconsistent sequence number")
       ELSE IF ~proposer.ok THEN proposer
       ELSE IF ~other.ok THEN other
       ELSE IF ~WaypointDiff_check(self.data.diff)
            THEN Err("Waypoint diff is not valid")
       ELSE IF ~(/\ self.data.diff.first.waypoint = self.proposer.summary.waypoint
                 /\ self.data.diff.second.waypoint = self.other.summary.waypoint
                 /\ self.data.diff.first.key = authority(self.proposer)
                 /\ self.data.diff.second.key = authority(self.other))
            THEN Err("Waypoint diff and checkpoint summary inconsistent")
       ELSE verify_certs(self.data.diff.first.items \o self.data.diff.second.items,
                         self.data.certs, c)

\* CheckpointFragment::verify(committee)
CheckpointFragment_verify(self, c) ==
    LET proposer == SignedCheckpointProposalSummary_verify(self.proposer, c)
        other == SignedCheckpointProposalSummary_verify(self.other, c)
    IN IF self.proposer.summary.sequence_number
             # self.other.summary.sequence_number
       THEN Err("Proposer and other have inconsistent sequence number")
       ELSE IF ~proposer.ok THEN proposer
       ELSE IF ~other.ok THEN other
       ELSE IF ~(/\ self.data.diff.first.waypoint = self.proposer.summary.waypoint
                 /\ self.data.diff.second.waypoint = self.other.summary.waypoint
                 /\ self.data.diff.first.key = authority(self.proposer)
                 /\ self.data.diff.second.key = authority(self.other))
            THEN Err("Waypoint diff and checkpoint summary inconsistent")
       ELSE IF ~WaypointDiff_check(self.data.diff)
            THEN Err("Waypoint diff is not valid")
       ELSE verify_certs(self.data.diff.first.items \o self.data.diff.second.items,
                         self.data.certs, c)

-----------------------------------------------------------------------------
\* bincode of CheckpointFragmentData.

\* A set of authorities as one field (the signature material of a certificate).
RECURSIVE MaskOf(_)
MaskOf(set) ==
    IF set = {} THEN 0
    ELSE LET a == SetMin(set) IN 2 ^ (a - 1) + MaskOf(set \ {a})

SetOfMask(m) == {a \in Names : (m \div (2 ^ (a - 1))) % 2 = 1}

\* A Vec of one-field items: the u64 length, then the items.
RECURSIVE SerWords(_)
SerWords(items) ==
    IF items = <<>> THEN <<>> ELSE BCat(Word(Head(items)), SerWords(Tail(items)))

SerPart(part) ==
    BConcat(<<Word(part.key), Word(part.waypoint),
              Word(Len(part.items)), SerWords(part.items)>>)

\* A CertifiedTransaction: the digest of its transaction, its signers and
\* the transaction data, a length-prefixed byte vector.
SerCert(cert) ==
    BConcat(<<Word(cert.digest), Word(MaskOf(cert.signers)),
              Word(BLen(cert.body)), cert.body>>)

\* A BTreeMap: the u64 length, then the entries in ascending key order.
RECURSIVE SerEntries(_, _)
SerEntries(certs, keys) ==
    IF keys = {} THEN <<>>
    ELSE LET k == SetMin(keys)
         IN BConcat(<<Word(k), SerCert(certs[k]),
                      SerEntries(certs, keys \ {k})>>)

serialize(data) ==
    BConcat(<<SerPart(data.diff.first), SerPart(data.diff.second),
              Word(Cardinality(DOMAIN data.certs)),
              SerEntries(data.certs, DOMAIN data.certs)>>)

\* Readers: [ok, value, rest]; a read past the end of the input fails.
Fail == [ok |-> FALSE]

Read(v, rest) == [ok |-> TRUE, value |-> v, rest |-> rest]

ReadWord(bs) ==
    IF bs = <<>> THEN Fail ELSE Read(Head(bs).b, BDrop(bs, 1))

RECURSIVE ReadWords(_, _)
ReadWords(bs, n) ==
    IF n = 0 THEN Read(<<>>, bs)
    ELSE IF n > BLen(bs) THEN Fail
    ELSE LET w == ReadWord(bs)
             r == ReadWords(w.rest, n - 1)
         IN IF r.ok THEN Read(<<w.value>> \o r.value, r.rest) ELSE Fail

ReadBytes(bs, n) ==
    IF n > BLen(bs) THEN Fail ELSE Read(BTake(bs, n), BDrop(bs, n))

ReadPart(bs) ==
    LET hd == ReadWords(bs, 3)
    IN IF ~hd.ok THEN Fail
       ELSE LET items == ReadWords(hd.rest, hd.value[3])
            IN IF ~items.ok THEN Fail
               ELSE Read([key |-> hd.value[1], waypoint |-> hd.value[2],
                          items |-> items.value], items.rest)

ReadCert(bs) ==
    LET hd == ReadWords(bs, 3)
    IN IF ~hd.ok THEN Fail
       ELSE LET body == ReadBytes(hd.rest, hd.value[3])
            IN IF ~body.ok THEN Fail
               ELSE Read([digest |-> hd.value[1],
                          signers |-> SetOfMask(hd.value[2]),
                          body |-> body.value], body.rest)

\* The entries are inserted as they are read: a repeated key keeps the last.
RECURSIVE ReadEntries(_, _, _)
ReadEntries(bs, n, certs) ==
    IF n = 0 THEN Read(certs, bs)
    ELSE IF n > BLen(bs) THEN Fail
    ELSE LET k == ReadWord(bs)
             c == ReadCert(k.rest)
         IN IF ~c.ok THEN Fail
            ELSE ReadEntries(c.rest, n - 1,
                             [d \in DOMAIN certs \cup {k.value} |->
                                 IF d = k.value THEN c.value ELSE certs[d]])

\* bincode::deserialize: it fails when the input ends before the value does;
\* bytes after the value are allowed.
deserialize(bs) ==
    LET first == ReadPart(bs)
    IN IF ~first.ok THEN Fail
       ELSE LET second == ReadPart(first.rest)
            IN IF ~second.ok THEN Fail
               ELSE LET n == ReadWord(second.rest)
                    IN IF ~n.ok THEN Fail
                       ELSE LET certs == ReadEntries(n.rest, n.value, <<>>)
                            IN IF ~certs.ok THEN Fail
                               ELSE [ok |-> TRUE,
                                     value |-> [diff |-> [first |-> first.value,
                                                          second |-> second.value],
                                                certs |-> certs.value]]

-----------------------------------------------------------------------------
\* Fragment messages.

Header(proposer, other, chunk_count) ==
    [type |-> "Header", proposer |-> proposer, other |-> other,
     chunk_count |-> chunk_count]

Chunk(sequence_number, proposer, other, chunk_id, content) ==
    [type |-> "Chunk", sequence_number |-> sequence_number,
     proposer |-> proposer, other |-> other, chunk_id |-> chunk_id,
     content |-> content]

\* Mutant of to_message_chunks: the chunks are numbered from one.
to_message_chunks_from_one(self) ==
    LET bytes == serialize(self.data)
        chunks == Chunks(bytes, FRAGMENT_CHUNK_SIZE)
    IN <<Header(self.proposer, self.other, Len(chunks))>>
       \o [idx \in 1 .. Len(chunks) |->
              Chunk(self.proposer.summary.sequence_number,
                    authority(self.proposer), authority(self.other),
                    idx, chunks[idx])]

\* CheckpointFragment::to_message_chunks.  chunks.len() and idx are cast to
\* u32; a payload has fewer than 2^32 chunks, so the casts change nothing.
to_message_chunks(self) ==
    LET proposer_name == authority(self.proposer)
        other_name == authority(self.other)
        sequence_number == self.proposer.summary.sequence_number
        bytes == serialize(self.data)
        chunks == Chunks(bytes, FRAGMENT_CHUNK_SIZE)
    IN <<Header(self.proposer, self.other, Len(chunks))>>
       \o [idx \in 1 .. Len(chunks) |->
              Chunk(sequence_number, proposer_name, other_name,
                    idx - 1, chunks[idx])]

\* CheckpointFragmentMessage::message_key
message_key(message) ==
    IF message.type = "Header"
    THEN <<message.proposer.summary.sequence_number,
           authority(message.proposer), authority(message.other)>>
    ELSE <<message.sequence_number, message.proposer, message.other>>

-----------------------------------------------------------------------------
\* The reassembly buffer.

PartialCheckpointFragment_new(header) ==
    [proposer |-> header.proposer, other |-> header.other,
     chunk_count |-> header.chunk_count, chunks |-> <<>>]

\* BTreeMap::insert
BTreeMap_insert(map, key, value) ==
    [k \in DOMAIN map \cup {key} |-> IF k = key THEN value ELSE map[k]]

\* Mutant of add_chunk: the bound check admits chunk_id = chunk_count.
add_chunk_off_by_one(self, chunk) ==
    IF ~(chunk.chunk_id <= self.chunk_count)
    THEN [self |-> self, result |-> Err("chunk_id out of bound")]
    ELSE [self |-> [self EXCEPT !.chunks =
                        BTreeMap_insert(self.chunks, chunk.chunk_id,
                                        chunk.content)],
          result |-> Ok]

\* Mutant of add_chunk: a filled index keeps its first content.
add_chunk_keep_first(self, chunk) ==
    IF ~(chunk.chunk_id < self.chunk_count)
    THEN [self |-> self, result |-> Err("chunk_id out of bound")]
    ELSE IF chunk.chunk_id \in DOMAIN self.chunks
    THEN [self |-> self, result |-> Ok]
    ELSE [self |-> [self EXCEPT !.chunks =
                        BTreeMap_insert(self.chunks, chunk.chunk_id,
                                        chunk.content)],
          result |-> Ok]

\* Mutant of add_chunk: a chunk of another (sequence number, proposer, other)
\* than the buffer's is refused.
add_chunk_checks_key(self, chunk) ==
    IF ~(chunk.chunk_id < self.chunk_count)
    THEN [self |-> self, result |-> Err("chunk_id out of bound")]
    ELSE IF <<chunk.sequence_number, chunk.proposer, chunk.other>>
                # <<self.proposer.summary.sequence_number,
                    authority(self.proposer), authority(self.other)>>
    THEN [self |-> self, result |-> Err("chunk of another fragment")]
    ELSE [self |-> [self EXCEPT !.chunks =
                        BTreeMap_insert(self.chunks, chunk.chunk_id,
                                        chunk.content)],
          result |-> Ok]

\* Mutant of add_chunk: the chunk stored is the only one kept.
add_chunk_forgets(self, chunk) ==
    IF ~(chunk.chunk_id < self.chunk_count)
    THEN [self |-> self, result |-> Err("chunk_id out of bound")]
    ELSE [self |-> [self EXCEPT !.chunks = chunk.chunk_id :> chunk.content],
          result |-> Ok]

\* add_chunk(&mut self, chunk): the buffer after the call and its result.
add_chunk(self, chunk) ==
    IF ~(chunk.chunk_id < self.chunk_count)
    THEN [self |-> self, result |-> Err("chunk_id out of bound")]
    ELSE [self |-> [self EXCEPT !.chunks =
                        BTreeMap_insert(self.chunks, chunk.chunk_id,
                                        chunk.content)],
          result |-> Ok]

\* Mutant of is_complete: complete as soon as the last index is filled.
is_complete_last_index(self) == (self.chunk_count - 1) \in DOMAIN self.chunks

is_complete(self) == Cardinality(DOMAIN self.chunks) = self.chunk_count

\* Mutant of into_values_flatten: the values in descending key order.
RECURSIVE into_values_flatten_descending(_)
into_values_flatten_descending(chunks) ==
    IF DOMAIN chunks = {} THEN <<>>
    ELSE LET k == CHOOSE x \in DOMAIN chunks : \A y \in DOMAIN chunks : x >= y
         IN BCat(chunks[k],
                 into_values_flatten_descending(
                     [j \in DOMAIN chunks \ {k} |-> chunks[j]]))

\* BTreeMap::into_values().flatten(): the values in ascending key order.
RECURSIVE into_values_flatten(_)
into_values_flatten(chunks) ==
    IF DOMAIN chunks = {} THEN <<>>
    ELSE LET k == SetMin(DOMAIN chunks)
         IN BCat(chunks[k],
                 into_values_flatten([j \in DOMAIN chunks \ {k} |-> chunks[j]]))

\* Mutant of to_fragment: the completeness check is left out.
to_fragment_unchecked(self) ==
    LET data == deserialize(into_values_flatten(self.chunks))
    IN IF ~data.ok THEN Err("Failed to deserialize chunk data")
       ELSE OkVal([proposer |-> self.proposer, other |-> self.other,
                   data |-> data.value])

\* PartialCheckpointFragment::to_fragment
to_fragment(self) ==
    IF ~is_complete(self) THEN Err("Fragment is missing chunks")
    ELSE LET content == into_values_flatten(self.chunks)
             data == deserialize(content)
         IN IF ~data.ok THEN Err("Failed to deserialize chunk data")
            ELSE OkVal([proposer |-> self.proposer, other |-> self.other,
                        data |-> data.value])

-----------------------------------------------------------------------------
\* The fragments, headers and chunks of the transport specification.

\* Largest chunk_id of a chunk that the sender did not emit.
MaxChunkId == 3

\* Largest chunk_count of a header that the sender did not emit.
MaxChunkCount == 3

ProposalA == CheckpointProposal_new(0, 1, 1, 1, {1})

ProposalB == CheckpointProposal_new(0, 1, 2, 2, {2})

ProposalB2 == CheckpointProposal_new(0, 2, 2, 2, {2})

ProposalC == CheckpointProposal_new(0, 1, 2, 2, {1})

\* Transaction data of n bytes whose two halves differ.
Body(n) ==
    IF n = 0 THEN <<>>
    ELSE IF n = 1 THEN <<Run(5, 1)>>
    ELSE <<Run(5, n \div 2), Run(6, n - n \div 2)>>

Cert(digest, body) == [digest |-> digest, signers |-> {1, 2}, body |-> body]

WithCerts(f, body) ==
    [f EXCEPT !.data.certs = (1 :> Cert(1, <<>>)) @@ (2 :> Cert(2, body))]

\* Lengths of the serialized payload: one chunk exactly, one byte more, two
\* chunks exactly, and two chunks and a third.
PayloadLens == {3000000, 3000001, 6000000, 7000000}

\* The fragment of `base` whose certificates make a payload of len bytes.
Padded(base, len) ==
    WithCerts(base, Body(len - BLen(serialize(WithCerts(base, <<>>).data))))

TransportFragments ==
    fragment_with(ProposalA, ProposalC)
    \cup {WithCerts(f, <<>>) : f \in fragment_with(ProposalA, ProposalB2)}
    \cup {Padded(f, len) : f \in fragment_with(ProposalA, ProposalB),
                           len \in PayloadLens}

\* Chunk contents the sender did not emit: nothing, a stray byte, and the
\* whole payload of another fragment.
ForeignContents ==
    {<<>>, Word(9)}
    \cup {serialize(f.data) : f \in fragment_with(ProposalC, ProposalA)}

ForeignChunks ==
    {Chunk(9, 3, 3, id, content) :
        id \in 0 .. MaxChunkId, content \in ForeignContents}

ForeignHeaders ==
    {Header(ProposalB.signed_summary, ProposalA.signed_summary, n) :
        n \in 0 .. MaxChunkCount}

EmittedChunks == {messages[i] : i \in 2 .. Len(messages)}

-----------------------------------------------------------------------------
\* The transport specification: a sender splits a fragment, a receiver
\* reassembles it from whatever reaches it.

\* No proposal has been built.
ProposalIdle ==
    /\ prop_input = <<>>
    /\ prop_proposal = None
    /\ prop_call = None

\* No fragment message has been signed.
SignedIdle ==
    /\ chunk_signer = None
    /\ signed_messages = <<>>
    /\ message_call = None

\* No checkpoint summary has been signed.
CertIdle ==
    /\ agg_committee = committee
    /\ signed_checkpoints = <<>>
    /\ built_from = <<>>
    /\ aggregate_result = None
    /\ verify_call = None

VerifyIdle ==
    /\ proposals = None
    /\ vfragment = None
    /\ edits = 0
    /\ vresult = None

Init ==
    /\ fragment \in TransportFragments
    /\ messages = <<>>
    /\ partial = None
    /\ last_chunk = None
    /\ add_result = None
    /\ overwrote = FALSE
    /\ consumed = None
    /\ frag_result = None
    /\ from_header = None
    /\ foreign = FALSE
    /\ VerifyIdle
    /\ CertIdle
    /\ ProposalIdle
    /\ SignedIdle

ToMessageChunks ==
    /\ messages = <<>>
    /\ messages' = to_message_chunks(fragment)
    /\ UNCHANGED <<fragment, partial, last_chunk, add_result, overwrote,
                   consumed, frag_result, from_header, foreign>>
    /\ UNCHANGED <<verifyVars, certVars, proposalVars, signedVars>>

NewPartial ==
    /\ partial = None
    /\ consumed = None
    /\ \E h \in ForeignHeaders \cup
                (IF messages = <<>> THEN {} ELSE {messages[1]}) :
          /\ partial' = PartialCheckpointFragment_new(h)
          /\ from_header' = h
    /\ UNCHANGED <<fragment, messages, last_chunk, add_result, overwrote,
                   consumed, frag_result, foreign>>
    /\ UNCHANGED <<verifyVars, certVars, proposalVars, signedVars>>

AddChunk ==
    /\ partial # None
    /\ \E chunk \in EmittedChunks \cup ForeignChunks :
          LET r == add_chunk(partial, chunk)
          IN /\ partial' = r.self
             /\ last_chunk' = chunk
             /\ add_result' = r.result
             /\ overwrote' = /\ r.result = Ok
                             /\ chunk.chunk_id \in DOMAIN partial.chunks
                             /\ partial.chunks[chunk.chunk_id] # chunk.content
             /\ foreign' = (foreign \/ chunk \notin EmittedChunks)
    /\ UNCHANGED <<fragment, messages, consumed, frag_result, from_header>>
    /\ UNCHANGED <<verifyVars, certVars, proposalVars, signedVars>>

ToFragment ==
    /\ partial # None
    /\ frag_result' = to_fragment(partial)
    /\ consumed' = partial
    /\ partial' = None
    /\ UNCHANGED <<fragment, messages, last_chunk, add_result, overwrote,
                   from_header, foreign>>
    /\ UNCHANGED <<verifyVars, certVars, proposalVars, signedVars>>

Next == ToMessageChunks \/ NewPartial \/ AddChunk \/ ToFragment

Spec == Init /\ [][Next]_vars

-----------------------------------------------------------------------------
\* Properties of the transport specification.

\* The buffer was created from the Header the sender emitted.
FromEmittedHeader == messages # <<>> /\ from_header = messages[1]

EmittedIds == {c.chunk_id : c \in EmittedChunks}

\* The stored contents of indices 0 .. n-1, concatenated in that order.
InIndexOrder(chunks) ==
    BConcat([i \in 1 .. Cardinality(DOMAIN chunks) |-> chunks[i - 1]])

\* C1: a buffer created from the emitted Header and fed only emitted chunks,
\* every one of them at least once in whatever order, is complete, and
\* to_fragment returns the sender's fragment: same proposer, other and data.
C1_RoundTrip ==
    /\ (/\ partial # None
        /\ FromEmittedHeader
        /\ ~foreign
        /\ DOMAIN partial.chunks = EmittedIds)
           => (is_complete(partial) /\ to_fragment(partial) = OkVal(fragment))
    /\ (/\ consumed # None
        /\ FromEmittedHeader
        /\ ~foreign
        /\ DOMAIN consumed.chunks = EmittedIds)
           => frag_result = OkVal(fragment)

\* C1 witness: a three-chunk fragment came back whole, chunk 0 having been
\* fed last.
C1_Witness ==
    /\ frag_result = OkVal(fragment)
    /\ FromEmittedHeader
    /\ ~foreign
    /\ Len(messages) = 4
    /\ last_chunk # None
    /\ last_chunk.chunk_id = 0

\* C2: add_chunk with chunk_id >= chunk_count returns an error and leaves the
\* stored chunks as they were; with chunk_id < chunk_count it returns Ok and
\* the content is stored under that index.
C2_BoundCheck ==
    [][AddChunk =>
          LET chunk == last_chunk'
          IN IF chunk.chunk_id >= partial.chunk_count
             THEN /\ add_result' = Err("chunk_id out of bound")
                  /\ partial'.chunks = partial.chunks
             ELSE /\ add_result' = Ok
                  /\ chunk.chunk_id \in DOMAIN partial'.chunks
                  /\ partial'.chunks[chunk.chunk_id] = chunk.content]_vars

\* C2 witness: a chunk was rejected by a buffer that holds chunks.
C2_Witness ==
    /\ partial # None
    /\ add_result = Err("chunk_id out of bound")
    /\ DOMAIN partial.chunks # {}

\* C3: a chunk added at a filled index replaces the content stored there, the
\* set of stored indices and every other content stay as they were, and
\* adding the chunk just added once more changes nothing.
C3_Overwrite ==
    [][AddChunk =>
          LET chunk == last_chunk'
          IN /\ chunk.chunk_id \in DOMAIN partial.chunks =>
                  /\ partial'.chunks[chunk.chunk_id] = chunk.content
                  /\ DOMAIN partial'.chunks = DOMAIN partial.chunks
                  /\ \A k \in DOMAIN partial.chunks \ {chunk.chunk_id} :
                        partial'.chunks[k] = partial.chunks[k]
             /\ add_chunk(partial', chunk).self = partial']_vars

\* C3 witness: the last add_chunk replaced different content at its index.
C3_Witness == partial # None /\ overwrote

\* C4: is_complete is true exactly when the number of stored indices is the
\* chunk_count the header declared, and to_fragment reports missing chunks
\* exactly when it is not.
C4_CompleteIffCount ==
    /\ partial # None =>
          (is_complete(partial)
              <=> Cardinality(DOMAIN partial.chunks) = from_header.chunk_count)
    /\ consumed # None =>
          (frag_result = Err("Fragment is missing chunks")
              <=> Cardinality(DOMAIN consumed.chunks) # from_header.chunk_count)

\* C4 witness: a buffer of three chunks is complete, chunk 0 having come last.
C4_Witness ==
    /\ partial # None
    /\ is_complete(partial)
    /\ partial.chunk_count = 3
    /\ last_chunk.chunk_id = 0

\* C5: to_fragment returns a fragment only from a complete buffer whose bytes
\* deserialize; an incomplete buffer gives the missing-chunks error and bytes
\* that do not deserialize give the deserialization error.
C5_ToFragmentErrors ==
    consumed # None =>
        LET count == Cardinality(DOMAIN consumed.chunks)
        IN /\ count # consumed.chunk_count =>
                  frag_result = Err("Fragment is missing chunks")
           /\ (/\ count = consumed.chunk_count
               /\ ~deserialize(InIndexOrder(consumed.chunks)).ok) =>
                  frag_result = Err("Failed to deserialize chunk data")
           /\ frag_result.ok =>
                  /\ count = consumed.chunk_count
                  /\ deserialize(InIndexOrder(consumed.chunks)).ok

\* C5 witness: a complete buffer whose bytes do not deserialize.
C5_Witness ==
    /\ consumed # None
    /\ consumed.chunk_count >= 2
    /\ frag_result = Err("Failed to deserialize chunk data")

\* C6: the fragment to_fragment returns holds the header's proposer and
\* other, and the data that the stored contents deserialize to when they are
\* concatenated in ascending index order.
C6_IndexOrder ==
    (consumed # None /\ frag_result.ok) =>
        /\ deserialize(InIndexOrder(consumed.chunks)).ok
        /\ frag_result.value =
              [proposer |-> from_header.proposer,
               other |-> from_header.other,
               data |-> deserialize(InIndexOrder(consumed.chunks)).value]

\* C6 witness: three chunks were reassembled although chunk 0 came last.
C6_Witness ==
    /\ consumed # None
    /\ frag_result.ok
    /\ consumed.chunk_count = 3
    /\ last_chunk.chunk_id = 0

\* C7: a payload of L bytes is split into ceil(L / 3,000,000) chunks, all of
\* 3,000,000 bytes but the last, which has 1 to 3,000,000 bytes; the contents
\* in index order are the payload; 7,000,000 bytes give 3,000,000, 3,000,000
\* and 1,000,000.
C7_Split ==
    messages # <<>> =>
        LET payload == serialize(fragment.data)
            n == Len(messages) - 1
            lens == [i \in 1 .. n |-> BLen(messages[i + 1].content)]
        IN /\ n = (BLen(payload) + 2999999) \div 3000000
           /\ \A i \in 1 .. n - 1 : lens[i] = 3000000
           /\ n >= 1 => (lens[n] >= 1 /\ lens[n] <= 3000000)
           /\ BConcat([i \in 1 .. n |-> messages[i + 1].content]) = payload
           /\ BLen(payload) = 7000000 => lens = <<3000000, 3000000, 1000000>>

\* C7 witness: a payload of 7,000,000 bytes has been split.
C7_Witness == messages # <<>> /\ BLen(serialize(fragment.data)) = 7000000

\* C8: the first message is the only Header, the Chunks follow with chunk_id
\* 0, 1, ..., n-1 where n is the Header's chunk_count, and every message has
\* the key (proposer's sequence number, proposer's name, other's name).
C8_MessageList ==
    messages # <<>> =>
        /\ messages[1].type = "Header"
        /\ messages[1].chunk_count = Len(messages) - 1
        /\ \A i \in 2 .. Len(messages) :
              /\ messages[i].type = "Chunk"
              /\ messages[i].chunk_id = i - 2
              /\ messages[i].chunk_id < messages[1].chunk_count
        /\ \A i \in 1 .. Len(messages) :
              message_key(messages[i]) =
                  <<fragment.proposer.summary.sequence_number,
                    authority(fragment.proposer), authority(fragment.other)>>

\* C8 witness: a Header and three Chunks have been emitted.
C8_Witness == Len(messages) = 4

-----------------------------------------------------------------------------
\* The verification specification: two proposals are paired into a fragment,
\* certificates are put into its mapping, its public fields may be rewritten
\* by whoever relays it, and a third party verifies what it receives.

\* Fields rewritten in one fragment, at most.
MaxEdits == 2

ProposalD == CheckpointProposal_new(0, 1, 3, 3, {2})

ProposalE == CheckpointProposal_new(0, 1, 1, 1, {})

ProposalF == CheckpointProposal_new(0, 1, 2, 2, {1, 2})

ProposalG == CheckpointProposal_new(0, 1, 1, 1, {1, 2})

\* Identical sets of one digest, disjoint sets, different sequence numbers, a
\* proposer outside the committee, two digests missing on one side, and
\* identical sets of two digests.
ProposalPairs ==
    {<<ProposalA, ProposalC>>, <<ProposalA, ProposalB>>,
     <<ProposalA, ProposalB2>>, <<ProposalD, ProposalA>>,
     <<ProposalE, ProposalF>>, <<ProposalG, ProposalF>>}

\* Certificates: a quorum-signed one for each digest, and one short of a quorum.
CertPool ==
    {[digest |-> d, signers |-> {1, 2}, body |-> <<>>] : d \in Digests}
    \cup {[digest |-> 1, signers |-> {1}, body |-> <<>>]}

Sides == {"proposer", "other"}

DiffSides == {"first", "second"}

SequenceNumbers == 1 .. 2

TransportIdle ==
    /\ fragment = None
    /\ messages = <<>>
    /\ partial = None
    /\ last_chunk = None
    /\ add_result = None
    /\ overwrote = FALSE
    /\ consumed = None
    /\ frag_result = None
    /\ from_header = None
    /\ foreign = FALSE

VerifyInit ==
    /\ proposals \in ProposalPairs
    /\ vfragment = None
    /\ edits = 0
    /\ vresult = None
    /\ TransportIdle
    /\ CertIdle
    /\ ProposalIdle
    /\ SignedIdle

FragmentWith ==
    /\ vfragment = None
    /\ vfragment' \in fragment_with(proposals[1], proposals[2])
    /\ UNCHANGED <<proposals, edits, vresult>>
    /\ UNCHANGED <<transportVars, certVars, proposalVars, signedVars>>

Editable == vfragment # None /\ vresult = None

\* An entry of the certified-transaction mapping is set.
PutCert ==
    /\ Editable
    /\ \E d \in Digests, cert \in CertPool :
          vfragment' = [vfragment EXCEPT !.data.certs =
                            BTreeMap_insert(@, d, cert)]
    /\ UNCHANGED <<proposals, edits, vresult>>
    /\ UNCHANGED <<transportVars, certVars, proposalVars, signedVars>>

\* The two sides of the difference proof change places.
SwapDiff ==
    /\ Editable
    /\ edits < MaxEdits
    /\ vfragment' = [vfragment EXCEPT !.data.diff =
                        [first |-> @.second, second |-> @.first]]
    /\ edits' = edits + 1
    /\ UNCHANGED <<proposals, vresult>>
    /\ UNCHANGED <<transportVars, certVars, proposalVars, signedVars>>

\* The key, the waypoint or the item list of one side of the proof is set.
EditDiff ==
    /\ Editable
    /\ edits < MaxEdits
    /\ \E side \in DiffSides :
          \/ \E key \in Names :
                vfragment' = [vfragment EXCEPT !.data.diff[side].key = key]
          \/ \E p \in {ProposalA, ProposalB, ProposalE} :
                vfragment' = [vfragment EXCEPT !.data.diff[side].waypoint =
                                  p.signed_summary.summary.waypoint]
          \/ \E items \in {<<>>, <<1>>, <<2>>} :
                vfragment' = [vfragment EXCEPT !.data.diff[side].items = items]
    /\ edits' = edits + 1
    /\ UNCHANGED <<proposals, vresult>>
    /\ UNCHANGED <<transportVars, certVars, proposalVars, signedVars>>

\* A summary is altered after signing, or replaced by another signed one.
EditSummary ==
    /\ Editable
    /\ edits < MaxEdits
    /\ \E side \in Sides :
          \/ \E n \in SequenceNumbers :
                vfragment' = [vfragment EXCEPT
                                  ![side].summary.sequence_number = n]
          \/ \E p \in {ProposalA, ProposalB, ProposalB2} :
                vfragment' = [vfragment EXCEPT ![side] = p.signed_summary]
    /\ edits' = edits + 1
    /\ UNCHANGED <<proposals, vresult>>
    /\ UNCHANGED <<transportVars, certVars, proposalVars, signedVars>>

Verify ==
    /\ Editable
    /\ vresult' = CheckpointFragment_verify(vfragment, committee)
    /\ UNCHANGED <<proposals, vfragment, edits>>
    /\ UNCHANGED <<transportVars, certVars, proposalVars, signedVars>>

VerifyNext ==
    FragmentWith \/ PutCert \/ SwapDiff \/ EditDiff \/ EditSummary \/ Verify

SpecVerify == VerifyInit /\ [][VerifyNext]_vars

-----------------------------------------------------------------------------
\* Properties of the verification specification.

SequenceMismatch == Err("Proposer and other have inconsistent sequence number")

\* C9: fragment_with returns a fragment for proposals with different sequence
\* numbers, and verify of any fragment whose two summaries carry different
\* sequence numbers fails with the sequence-mismatch error.
C9_SequenceMismatch ==
    /\ (/\ proposals[1].signed_summary.summary.sequence_number
              # proposals[2].signed_summary.summary.sequence_number
        /\ vfragment = None)
           => \E f \in fragment_with(proposals[1], proposals[2]) :
                 /\ f.proposer = proposals[1].signed_summary
                 /\ f.other = proposals[2].signed_summary
    /\ (/\ vresult # None
        /\ vfragment.proposer.summary.sequence_number
              # vfragment.other.summary.sequence_number)
           => vresult = SequenceMismatch

\* C9 witness: the fragment that fragment_with built from proposals at
\* sequence numbers 1 and 2 failed verification on the sequence numbers.
C9_Witness ==
    /\ vresult = SequenceMismatch
    /\ edits = 0
    /\ proposals = <<ProposalA, ProposalB2>>
    /\ vfragment \in fragment_with(ProposalA, ProposalB2)

\* C10: verify succeeds only if the first waypoint and key of the difference
\* proof are the proposer summary's waypoint and signer, and the second
\* waypoint and key are the other summary's.
C10_DiffMatchesSummaries ==
    vresult = Ok =>
        /\ vfragment.data.diff.first.waypoint = vfragment.proposer.summary.waypoint
        /\ vfragment.data.diff.first.key
              = vfragment.proposer.auth_signature.authority
        /\ vfragment.data.diff.second.waypoint = vfragment.other.summary.waypoint
        /\ vfragment.data.diff.second.key
              = vfragment.other.auth_signature.authority

\* C10 witness: a fragment with the two sides of its proof swapped was
\* rejected as inconsistent with its summaries.
C10_Witness ==
    /\ vresult = Err("Waypoint diff and checkpoint summary inconsistent")
    /\ proposals = <<ProposalA, ProposalC>>
    /\ edits = 1
    /\ \E f \in fragment_with(ProposalA, ProposalC) :
          /\ vfragment.proposer = f.proposer
          /\ vfragment.other = f.other
          /\ vfragment.data.diff.first = f.data.diff.second
          /\ vfragment.data.diff.second = f.data.diff.first


MissingCert == Err("Missing cert with digest")

\* The digests verify looks up, in the order of its loop.
MissingDigests(f) == f.data.diff.first.items \o f.data.diff.second.items

\* The clauses of verify that come before its loop over the certificates.
ClausesBeforeCerts(f) ==
    /\ f.proposer.summary.sequence_number = f.other.summary.sequence_number
    /\ SignedCheckpointProposalSummary_verify(f.proposer, committee).ok
    /\ SignedCheckpointProposalSummary_verify(f.other, committee).ok
    /\ f.data.diff.first.waypoint = f.proposer.summary.waypoint
    /\ f.data.diff.second.waypoint = f.other.summary.waypoint
    /\ f.data.diff.first.key = f.proposer.auth_signature.authority
    /\ f.data.diff.second.key = f.other.auth_signature.authority
    /\ WaypointDiff_check(f.data.diff)

QuorumSigned(cert) == CertifiedTransaction_verify_signature(cert, committee).ok

\* C11 as claimed: whenever a digest listed as missing has no entry in the
\* mapping, verify fails with the missing-evidence error.
C11_MissingEvidenceAlways ==
    (/\ vresult # None
     /\ \E i \in DOMAIN MissingDigests(vfragment) :
           MissingDigests(vfragment)[i] \notin DOMAIN vfragment.data.certs)
        => vresult = MissingCert

\* C11 as amended: whenever a digest listed as missing has no entry, verify
\* fails; the error is the missing-evidence error when the clauses before the
\* loop hold and every digest listed before it has a quorum-signed entry.  The
\* fragment of disjoint proposals {d1}, {d2} verifies with quorum-signed
\* entries for both digests and fails on missing evidence with one left out.
C11_MissingEvidence ==
    vresult # None =>
        LET digests == MissingDigests(vfragment)
            certs == vfragment.data.certs
            absent == {i \in DOMAIN digests : digests[i] \notin DOMAIN certs}
        IN /\ absent # {} => ~vresult.ok
           /\ (/\ absent # {}
               /\ ClausesBeforeCerts(vfragment)
               /\ \A i \in 1 .. SetMin(absent) - 1 : QuorumSigned(certs[digests[i]]))
                  => vresult = MissingCert
           /\ (/\ proposals = <<ProposalA, ProposalB>>
               /\ edits = 0
               /\ \A d \in DOMAIN certs : QuorumSigned(certs[d]))
                  => IF DOMAIN certs = {1, 2} THEN vresult = Ok
                     ELSE vresult = MissingCert

\* C11 witness: the fragment of the disjoint proposals was verified with the
\* certificate of one digest supplied and the other left out.
C11_Witness ==
    /\ vresult = MissingCert
    /\ proposals = <<ProposalA, ProposalB>>
    /\ edits = 0
    /\ DOMAIN vfragment.data.certs = {2}
    /\ QuorumSigned(vfragment.data.certs[2])

\* C12: verify succeeds only if every digest listed as missing has an entry
\* that is a certified transaction of that very digest with signatures that
\* verify against the committee.
C12_CertsAreForTheirDigests ==
    vresult = Ok =>
        \A i \in DOMAIN MissingDigests(vfragment) :
            LET d == MissingDigests(vfragment)[i]
            IN /\ d \in DOMAIN vfragment.data.certs
               /\ vfragment.data.certs[d].digest = d
               /\ QuorumSigned(vfragment.data.certs[d])

\* C13: fragment_with gives the difference protocol the items of other that
\* self lacks as missing from self and the items of self that other lacks as
\* missing from other, each once; the fragment has self's signed summary as
\* proposer, other's as other, and an empty mapping.
C13_FragmentWith ==
    [][FragmentWith =>
          LET self == proposals[1]
              other == proposals[2]
              diff == vfragment'.data.diff
              Elements(items) == {items[i] : i \in DOMAIN items}
          IN /\ Elements(diff.first.items)
                    = other.transactions \ self.transactions
             /\ Len(diff.first.items)
                    = Cardinality(other.transactions \ self.transactions)
             /\ Elements(diff.second.items)
                    = self.transactions \ other.transactions
             /\ Len(diff.second.items)
                    = Cardinality(self.transactions \ other.transactions)
             /\ diff.first.key = self.signed_summary.auth_signature.authority
             /\ diff.first.waypoint = self.signed_summary.summary.waypoint
             /\ diff.second.key = other.signed_summary.auth_signature.authority
             /\ diff.second.waypoint = other.signed_summary.summary.waypoint
             /\ vfragment'.proposer = self.signed_summary
             /\ vfragment'.other = other.signed_summary
             /\ vfragment'.data.certs = <<>>]_vars

\* C13 witness: fragment_with has paired the empty proposal with the proposal
\* of two digests.
C13_Witness ==
    /\ proposals = <<ProposalE, ProposalF>>
    /\ vfragment # None
    /\ edits = 0
    /\ vfragment.data.certs = <<>>
    /\ Len(vfragment.data.diff.first.items) = 2

ValidlySigned(proposal) ==
    SignedCheckpointProposalSummary_verify(proposal.signed_summary, committee).ok

\* C14: for two proposals signed by committee members at one sequence number
\* with identical digest sets, the fragment of fragment_with lists no missing
\* item on either side, has an empty mapping, and verifies.
C14_IdenticalSets ==
    (/\ proposals[1].transactions = proposals[2].transactions
     /\ proposals[1].signed_summary.summary.sequence_number
           = proposals[2].signed_summary.summary.sequence_number
     /\ ValidlySigned(proposals[1])
     /\ ValidlySigned(proposals[2])
     /\ vfragment # None
     /\ edits = 0
     /\ vfragment.data.certs = <<>>)
        => /\ vfragment.data.diff.first.items = <<>>
           /\ vfragment.data.diff.second.items = <<>>
           /\ vresult # None => vresult = Ok

\* C14 witness: the fragment of two proposals of the same two digests was
\* verified as fragment_with returned it.
C14_Witness ==
    /\ proposals = <<ProposalG, ProposalF>>
    /\ edits = 0
    /\ vfragment \in fragment_with(ProposalG, ProposalF)
    /\ vresult = Ok


\* ---------------------------------------------------------------------------
\* Checkpoint summaries, signed and certified.
\* ---------------------------------------------------------------------------

\* CheckpointContents::new_with_causally_ordered_transactions
CheckpointContents_new(contents) == [transactions |-> contents]

\* sha3_hash of an ordered Vec of digests, as an ideal hash: one number per
\* sequence, the order included.
RECURSIVE sha3_hash_vec(_)
sha3_hash_vec(transactions) ==
    IF transactions = <<>> THEN 1
    ELSE LET n == Len(transactions)
         IN sha3_hash_vec(SubSeq(transactions, 1, n - 1))
                * (Cardinality(Digests) + 1) + transactions[n]

\* CheckpointContents::digest
CheckpointContents_digest(contents) == sha3_hash_vec(contents.transactions)

\* Mutant of CheckpointSummary_new: the digest is taken of the contents with
\* the order of the transactions dropped.
CheckpointSummary_new_unordered_digest(epoch, sequence_number, transactions, previous_digest, gas_cost_summary, next_epoch_committee) ==
    [epoch |-> epoch,
     sequence_number |-> sequence_number,
     content_digest |->
         sha3_hash({transactions.transactions[i] :
                        i \in DOMAIN transactions.transactions}),
     previous_digest |-> previous_digest,
     gas_cost_summary |-> gas_cost_summary,
     next_epoch_committee |->
         IF next_epoch_committee = None THEN None
         ELSE next_epoch_committee.voting_rights]

\* CheckpointSummary::new.  The waypoint it fills is dropped at return.
CheckpointSummary_new(epoch, sequence_number, transactions, previous_digest, gas_cost_summary, next_epoch_committee) ==
    [epoch |-> epoch,
     sequence_number |-> sequence_number,
     content_digest |-> CheckpointContents_digest(transactions),
     previous_digest |-> previous_digest,
     gas_cost_summary |-> gas_cost_summary,
     next_epoch_committee |->
         IF next_epoch_committee = None THEN None
         ELSE next_epoch_committee.voting_rights]

\* SignedCheckpointSummary::new_from_summary
SignedCheckpointSummary_new_from_summary(checkpoint, authority_name, signer) ==
    [summary |-> checkpoint,
     auth_signature |->
         AuthoritySignInfo_new(checkpoint.epoch, checkpoint, authority_name, signer)]

\* SignedCheckpointSummary::new
SignedCheckpointSummary_new(epoch, sequence_number, authority_name, signer, transactions, previous_digest, gas_cost_summary, next_epoch_committee) ==
    SignedCheckpointSummary_new_from_summary(
        CheckpointSummary_new(epoch, sequence_number, transactions,
                              previous_digest, gas_cost_summary,
                              next_epoch_committee),
        authority_name, signer)

ContentsMismatch == Err("Checkpoint contents digest mismatch")

\* Mutant of SignedCheckpointSummary_verify: the signature is not verified.
SignedCheckpointSummary_verify_no_signature(self, c, contents) ==
    IF self.summary.epoch # c.epoch
    THEN Err("Epoch in the summary doesn't match with the signature")
    ELSE IF /\ contents # None
            /\ CheckpointContents_digest(contents) # self.summary.content_digest
         THEN ContentsMismatch
         ELSE Ok

\* SignedCheckpointSummary::verify(committee, contents)
SignedCheckpointSummary_verify(self, c, contents) ==
    IF self.summary.epoch # c.epoch
    THEN Err("Epoch in the summary doesn't match with the signature")
    ELSE LET r == AuthoritySignInfo_verify(self.auth_signature, self.summary, c)
         IN IF ~r.ok THEN r
            ELSE IF /\ contents # None
                    /\ CheckpointContents_digest(contents)
                           # self.summary.content_digest
                 THEN ContentsMismatch
                 ELSE Ok

\* AuthorityWeakQuorumSignInfo::new_from_auth_sign_infos: the signatures of
\* the inputs, each under its authority, for the committee's epoch; an
\* authority outside the committee has no place in the structure.
AuthorityWeakQuorumSignInfo_new_from_auth_sign_infos(auth_sign_infos, c) ==
    IF \E i \in DOMAIN auth_sign_infos :
           weight(c, auth_sign_infos[i].authority) = 0
    THEN Err("UnknownSigner")
    ELSE OkVal([epoch |-> c.epoch,
                signatures |->
                    [i \in DOMAIN auth_sign_infos |->
                        [authority |-> auth_sign_infos[i].authority,
                         signature |-> auth_sign_infos[i].signature]]])

\* The authorities of an aggregated signature.
signers(info) == {info.signatures[i].authority : i \in DOMAIN info.signatures}

\* AuthorityWeakQuorumSignInfo::add_to_verification_obligation followed by
\* VerificationObligation::verify_all for the one message (data, info.epoch):
\* the epoch is the committee's, every signer is a member, the signers hold
\* the quorum threshold of the stake, and every signature is valid for data.
AuthorityWeakQuorumSignInfo_verify(info, data, c) ==
    IF info.epoch # c.epoch THEN Err("WrongEpoch")
    ELSE IF \E a \in signers(info) : weight(c, a) = 0 THEN Err("UnknownSigner")
    ELSE IF total_votes(c, signers(info)) < quorum_threshold(c)
    THEN Err("CertificateRequiresQuorum")
    ELSE IF \E i \in DOMAIN info.signatures :
                ~AuthoritySignature_verify(info.signatures[i].signature, data,
                                           info.epoch,
                                           info.signatures[i].authority)
    THEN Err("InvalidSignature")
    ELSE Ok

\* Mutant of CertifiedCheckpointSummary_verify: the aggregated signature is
\* not verified.
CertifiedCheckpointSummary_verify_no_signature(self, c, contents) ==
    IF self.summary.epoch # c.epoch
    THEN Err("Epoch in the summary doesn't match with the committee")
    ELSE IF /\ contents # None
            /\ CheckpointContents_digest(contents) # self.summary.content_digest
         THEN ContentsMismatch
         ELSE Ok

\* CertifiedCheckpointSummary::verify(committee, contents)
CertifiedCheckpointSummary_verify(self, c, contents) ==
    IF self.summary.epoch # c.epoch
    THEN Err("Epoch in the summary doesn't match with the committee")
    ELSE LET r == AuthorityWeakQuorumSignInfo_verify(self.auth_signature,
                                                     self.summary, c)
         IN IF ~r.ok THEN r
            ELSE IF /\ contents # None
                    /\ CheckpointContents_digest(contents)
                           # self.summary.content_digest
                 THEN ContentsMismatch
                 ELSE Ok

NoCheckpoints == Err("Need at least one signed checkpoint to aggregate")

DifferentEpoch == Err("SignedCheckpoint is from different epoch as committee")

\* Mutant of aggregate: only the signature of the first input is aggregated.
aggregate_first_only(checkpoints, c) ==
    IF checkpoints = <<>> THEN NoCheckpoints
    ELSE IF \E i \in DOMAIN checkpoints : checkpoints[i].summary.epoch # c.epoch
    THEN DifferentEpoch
    ELSE LET info == AuthorityWeakQuorumSignInfo_new_from_auth_sign_infos(
                         <<checkpoints[1].auth_signature>>, c)
         IN IF ~info.ok THEN info
            ELSE LET certified_checkpoint ==
                         [summary |-> checkpoints[1].summary,
                          auth_signature |-> info.value]
                     v == CertifiedCheckpointSummary_verify(
                              certified_checkpoint, c, None)
                 IN IF ~v.ok THEN v ELSE OkVal(certified_checkpoint)

\* Mutant of aggregate: only the epoch of the first input is compared.
aggregate_first_epoch_only(checkpoints, c) ==
    IF checkpoints = <<>> THEN NoCheckpoints
    ELSE IF checkpoints[1].summary.epoch # c.epoch
    THEN DifferentEpoch
    ELSE LET info == AuthorityWeakQuorumSignInfo_new_from_auth_sign_infos(
                         [i \in DOMAIN checkpoints |->
                             checkpoints[i].auth_signature], c)
         IN IF ~info.ok THEN info
            ELSE LET certified_checkpoint ==
                         [summary |-> checkpoints[1].summary,
                          auth_signature |-> info.value]
                     v == CertifiedCheckpointSummary_verify(
                              certified_checkpoint, c, None)
                 IN IF ~v.ok THEN v ELSE OkVal(certified_checkpoint)

\* Mutant of aggregate: the certificate is returned without verifying it.
aggregate_no_verify(checkpoints, c) ==
    IF checkpoints = <<>> THEN NoCheckpoints
    ELSE IF \E i \in DOMAIN checkpoints : checkpoints[i].summary.epoch # c.epoch
    THEN DifferentEpoch
    ELSE LET info == AuthorityWeakQuorumSignInfo_new_from_auth_sign_infos(
                         [i \in DOMAIN checkpoints |->
                             checkpoints[i].auth_signature], c)
         IN IF ~info.ok THEN info
            ELSE OkVal([summary |-> checkpoints[1].summary,
                        auth_signature |-> info.value])

\* CertifiedCheckpointSummary::aggregate(signed_checkpoints, committee)
aggregate(checkpoints, c) ==
    IF checkpoints = <<>> THEN NoCheckpoints
    ELSE IF \E i \in DOMAIN checkpoints : checkpoints[i].summary.epoch # c.epoch
    THEN DifferentEpoch
    ELSE LET info == AuthorityWeakQuorumSignInfo_new_from_auth_sign_infos(
                         [i \in DOMAIN checkpoints |->
                             checkpoints[i].auth_signature], c)
         IN IF ~info.ok THEN info
            ELSE LET certified_checkpoint ==
                         [summary |-> checkpoints[1].summary,
                          auth_signature |-> info.value]
                     v == CertifiedCheckpointSummary_verify(
                              certified_checkpoint, c, None)
                 IN IF ~v.ok THEN v ELSE OkVal(certified_checkpoint)

\* ---------------------------------------------------------------------------
\* The certificate specification: authorities sign checkpoint summaries, the
\* collected summaries are aggregated, and summaries and certificates are
\* verified against committees, with and without contents.
\* ---------------------------------------------------------------------------

MaxSigned == 3

\* A committee of unequal stake: total 4, quorum threshold 3.
CommitteeW == [epoch |-> 0, voting_rights |-> (1 :> 2) @@ (2 :> 1) @@ (3 :> 1)]

\* The committee of the epoch after committee's, and one sharing no member
\* with the others.
CommitteeNext == [committee EXCEPT !.epoch = committee.epoch + 1]

CommitteeDisjoint == [epoch |-> 0, voting_rights |-> (4 :> 3)]

AggregateCommittees == {committee, CommitteeW}

VerifyCommittees == AggregateCommittees \cup {CommitteeNext, CommitteeDisjoint}

\* Two checkpoint contents of the same transactions in different order.
ContentsX == CheckpointContents_new(<<1, 2>>)

ContentsY == CheckpointContents_new(<<2, 1>>)

ContentsPool == {ContentsX, ContentsY}

\* What an authority signs: epoch and contents of the summary, and whether the
\* summary is rewritten after signing.
Signables ==
    {[epoch |-> 0, contents |-> ContentsX, altered |-> FALSE],
     [epoch |-> 0, contents |-> ContentsY, altered |-> FALSE],
     [epoch |-> 1, contents |-> ContentsX, altered |-> FALSE],
     [epoch |-> 0, contents |-> ContentsX, altered |-> TRUE]}

CertInit ==
    /\ TransportIdle
    /\ VerifyIdle
    /\ ProposalIdle
    /\ SignedIdle
    /\ agg_committee \in AggregateCommittees
    /\ signed_checkpoints = <<>>
    /\ built_from = <<>>
    /\ aggregate_result = None
    /\ verify_call = None

\* An authority builds and signs a summary with SignedCheckpointSummary::new;
\* the summary is pushed to the Vec as signed, or with its sequence number
\* rewritten (the fields of the envelope are pub).
SignCheckpoint ==
    /\ Len(signed_checkpoints) < MaxSigned
    /\ \E a \in Names, v \in Signables :
          /\ v.altered => a = 1
          /\ LET signed == SignedCheckpointSummary_new(
                               v.epoch, 1, a, a, v.contents, None, 0, None)
                 pushed == IF v.altered
                           THEN [signed EXCEPT !.summary.sequence_number = 2]
                           ELSE signed
             IN /\ signed_checkpoints' = Append(signed_checkpoints, pushed)
                /\ built_from' = Append(built_from, v.contents)
    /\ aggregate_result' = None
    /\ verify_call' = None
    /\ UNCHANGED <<proposalVars, signedVars>>
    /\ UNCHANGED <<transportVars, verifyVars, agg_committee>>

\* CertifiedCheckpointSummary::aggregate on the collected summaries.
Aggregate ==
    /\ aggregate_result = None
    /\ aggregate_result' = aggregate(signed_checkpoints, agg_committee)
    /\ verify_call' = None
    /\ UNCHANGED <<proposalVars, signedVars>>
    /\ UNCHANGED <<transportVars, verifyVars, agg_committee,
                   signed_checkpoints, built_from>>

\* SignedCheckpointSummary::verify on the summary pushed last.
VerifySigned ==
    /\ signed_checkpoints # <<>>
    /\ \E c \in VerifyCommittees, contents \in {None} \cup ContentsPool :
          LET subject == signed_checkpoints[Len(signed_checkpoints)]
          IN verify_call' =
                 [kind |-> "signed", subject |-> subject, committee |-> c,
                  contents |-> contents,
                  result |-> SignedCheckpointSummary_verify(subject, c, contents)]
    /\ UNCHANGED <<proposalVars, signedVars>>
    /\ UNCHANGED <<transportVars, verifyVars, agg_committee,
                   signed_checkpoints, built_from, aggregate_result>>

\* CertifiedCheckpointSummary::verify on the certificate aggregate returned.
VerifyCertified ==
    /\ aggregate_result # None
    /\ aggregate_result.ok
    /\ \E c \in VerifyCommittees, contents \in {None} \cup ContentsPool :
          LET subject == aggregate_result.value
          IN verify_call' =
                 [kind |-> "certified", subject |-> subject, committee |-> c,
                  contents |-> contents,
                  result |->
                      CertifiedCheckpointSummary_verify(subject, c, contents)]
    /\ UNCHANGED <<proposalVars, signedVars>>
    /\ UNCHANGED <<transportVars, verifyVars, agg_committee,
                   signed_checkpoints, built_from, aggregate_result>>

CertNext ==
    \/ SignCheckpoint
    \/ Aggregate
    \/ VerifySigned
    \/ VerifyCertified

SpecCert == CertInit /\ [][CertNext]_vars


\* ---------------------------------------------------------------------------
\* Properties of the certificate specification.
\* ---------------------------------------------------------------------------

\* The authorities that signed the collected summaries.
InputSigners ==
    {signed_checkpoints[i].auth_signature.authority :
         i \in DOMAIN signed_checkpoints}

\* Every collected summary is validly signed for the committee handed to
\* aggregate, and all carry one payload.
ValidInputsOfOnePayload ==
    \A i \in DOMAIN signed_checkpoints :
        /\ SignedCheckpointSummary_verify(signed_checkpoints[i], agg_committee,
                                          None).ok
        /\ signed_checkpoints[i].summary = signed_checkpoints[1].summary

\* C15: for validly signed summaries of one payload in the committee's epoch,
\* aggregate succeeds exactly when the signers together hold at least the
\* committee's quorum threshold of the stake.
C15_AggregateIffQuorum ==
    (aggregate_result # None /\ ValidInputsOfOnePayload)
        => (aggregate_result.ok
                <=> total_votes(agg_committee, InputSigners)
                        >= quorum_threshold(agg_committee))

\* C15 witness: in the committee of unequal stake, the summaries of the two
\* members of stake 1 were refused.
C15_Witness ==
    /\ aggregate_result # None
    /\ ~aggregate_result.ok
    /\ agg_committee = CommitteeW
    /\ ValidInputsOfOnePayload
    /\ InputSigners = {2, 3}

\* C16: a certificate returned by aggregate passes verify(committee, None)
\* for the committee it was aggregated for, and fails it for a committee of
\* another epoch or of disjoint membership.
C16_CertificateVerifies ==
    /\ (aggregate_result # None /\ aggregate_result.ok)
           => CertifiedCheckpointSummary_verify(aggregate_result.value,
                                                agg_committee, None) = Ok
    /\ (/\ verify_call # None
        /\ verify_call.kind = "certified"
        /\ verify_call.contents = None)
           => /\ verify_call.committee = agg_committee
                     => verify_call.result = Ok
              /\ (\/ verify_call.committee.epoch # agg_committee.epoch
                  \/ DOMAIN verify_call.committee.voting_rights
                         \cap DOMAIN agg_committee.voting_rights = {})
                     => ~verify_call.result.ok

\* C16 witness: a returned certificate was verified against the committee of
\* disjoint membership.
C16_Witness ==
    /\ verify_call # None
    /\ verify_call.kind = "certified"
    /\ verify_call.contents = None
    /\ verify_call.committee = CommitteeDisjoint
    /\ ~verify_call.result.ok

\* C17: aggregate returns an error, and no certificate, for an empty input
\* and for an input in which any summary, the first or a later one, is of an
\* epoch other than the committee's.
C17_AggregateInputErrors ==
    aggregate_result # None =>
        /\ signed_checkpoints = <<>> => aggregate_result = NoCheckpoints
        /\ (\E i \in DOMAIN signed_checkpoints :
               signed_checkpoints[i].summary.epoch # agg_committee.epoch)
              => aggregate_result = DifferentEpoch

\* C17 witness: aggregate refused an input whose first two summaries are of
\* the committee's epoch and whose third is not.
C17_Witness ==
    /\ aggregate_result = DifferentEpoch
    /\ Len(signed_checkpoints) = 3
    /\ signed_checkpoints[1].summary.epoch = agg_committee.epoch
    /\ signed_checkpoints[2].summary.epoch = agg_committee.epoch
    /\ signed_checkpoints[3].summary.epoch # agg_committee.epoch

\* C18: the certificate aggregate returns carries the payload of the first
\* input, and aggregate returns none when the signature of some input was made
\* over another payload, whatever stake the signers hold.
C18_FirstPayload ==
    (aggregate_result # None /\ aggregate_result.ok)
        => /\ aggregate_result.value.summary = signed_checkpoints[1].summary
           /\ \A i \in DOMAIN signed_checkpoints :
                  signed_checkpoints[i].auth_signature.signature.msg
                      = signed_checkpoints[1].summary

\* C18 witness: aggregate refused two summaries of different contents signed
\* by members holding a quorum of the stake.
C18_Witness ==
    /\ aggregate_result # None
    /\ ~aggregate_result.ok
    /\ Len(signed_checkpoints) = 2
    /\ \A i \in 1 .. 2 :
           SignedCheckpointSummary_verify(signed_checkpoints[i], agg_committee,
                                          None).ok
    /\ signed_checkpoints[1].summary # signed_checkpoints[2].summary
    /\ total_votes(agg_committee, InputSigners)
           >= quorum_threshold(agg_committee)

\* C19: SignedCheckpointSummary::verify(committee, None) succeeds exactly when
\* the summary's epoch is the committee's, the claimed signer is a member of
\* the committee, and the signature is valid for the summary under the
\* signer's key.
C19_SignedVerify ==
    (/\ verify_call # None
     /\ verify_call.kind = "signed"
     /\ verify_call.contents = None)
        => LET signed == verify_call.subject
               c == verify_call.committee
           IN verify_call.result.ok
                  <=> /\ signed.summary.epoch = c.epoch
                      /\ weight(c, signed.auth_signature.authority) > 0
                      /\ AuthoritySignature_verify(
                             signed.auth_signature.signature, signed.summary,
                             c.epoch, signed.auth_signature.authority)

\* C19 witness: a summary rewritten after signing was verified against the
\* committee of its signer and epoch, and refused.
C19_Witness ==
    /\ verify_call # None
    /\ verify_call.kind = "signed"
    /\ verify_call.contents = None
    /\ verify_call.committee = committee
    /\ verify_call.subject.summary.sequence_number = 2
    /\ ~verify_call.result.ok

\* The contents the subject of the last verify call was built from.
SubjectBuiltFrom ==
    IF verify_call.kind = "signed" THEN built_from[Len(built_from)]
    ELSE built_from[1]

\* The last verify call would succeed without contents.
SignaturesVerify ==
    IF verify_call.kind = "signed"
    THEN SignedCheckpointSummary_verify(verify_call.subject,
                                        verify_call.committee, None).ok
    ELSE CertifiedCheckpointSummary_verify(verify_call.subject,
                                           verify_call.committee, None).ok

\* C20: a summary built by CheckpointSummary::new has the digest of its
\* contents as content_digest; verify of a signed or certified summary, given
\* contents, fails with the content digest mismatch error when the digest of
\* the contents differs, valid signatures notwithstanding, and succeeds on the
\* contents the summary was built from.
C20_ContentDigest ==
    /\ \A i \in DOMAIN signed_checkpoints :
           signed_checkpoints[i].summary.content_digest
               = CheckpointContents_digest(built_from[i])
    /\ (/\ verify_call # None
        /\ verify_call.contents # None
        /\ SignaturesVerify)
           => /\ CheckpointContents_digest(verify_call.contents)
                     # verify_call.subject.summary.content_digest
                    => verify_call.result = ContentsMismatch
              /\ verify_call.contents = SubjectBuiltFrom
                    => verify_call.result = Ok

\* C20 witness: a certificate of summaries built from one contents was
\* verified with the same transactions in another order, and refused.
C20_Witness ==
    /\ verify_call # None
    /\ verify_call.kind = "certified"
    /\ verify_call.committee = agg_committee
    /\ built_from[1] = ContentsX
    /\ verify_call.contents = ContentsY
    /\ verify_call.result = ContentsMismatch


\* ---------------------------------------------------------------------------
\* Proposals and their contents.
\* ---------------------------------------------------------------------------

Some(x) == [some |-> x]

\* Mutant of CheckpointProposalContents_new: the first item of the iterator is
\* passed over.
CheckpointProposalContents_new_skip_first(contents) ==
    {contents[i] : i \in DOMAIN contents \ {1}}

\* CheckpointProposalContents::new: the iterator is collected into a BTreeSet.
CheckpointProposalContents_new(contents) ==
    {contents[i] : i \in DOMAIN contents}

ProposalMismatch ==
    Err("Checkpoint proposal content doesn't match with the summary")

\* Mutant of SignedCheckpointProposalSummary_verify_contents: the contents are
\* not looked at.
SignedCheckpointProposalSummary_verify_contents_ignored(self, c, contents) ==
    AuthoritySignInfo_verify(self.auth_signature, self.summary, c)

\* SignedCheckpointProposalSummary::verify(committee, contents), contents an
\* Option: None or Some(the BTreeSet of a CheckpointProposalContents).
SignedCheckpointProposalSummary_verify_contents(self, c, contents) ==
    LET r == AuthoritySignInfo_verify(self.auth_signature, self.summary, c)
    IN IF ~r.ok THEN r
       ELSE IF contents = None THEN Ok
       ELSE LET recomputed ==
                    CheckpointProposalSummary_new(self.summary.sequence_number,
                                                  contents.some)
            IN IF recomputed # self.summary THEN ProposalMismatch ELSE Ok

\* ---------------------------------------------------------------------------
\* The proposal specification: an authority builds a proposal from a sequence
\* of digests, the summary may be rewritten after signing, and the signed
\* summary is verified with and without contents.
\* ---------------------------------------------------------------------------

MaxInput == 3

\* The sequences of digests handed to CheckpointProposalContents::new.
ProposalInputs == UNION {[1 .. n -> Digests] : n \in 0 .. MaxInput}

ProposalInit ==
    /\ TransportIdle
    /\ VerifyIdle
    /\ CertIdle
    /\ SignedIdle
    /\ prop_input \in ProposalInputs
    /\ prop_proposal = None
    /\ prop_call = None

\* CheckpointProposal::new on the contents collected from the input.
NewProposal ==
    /\ prop_proposal = None
    /\ \E a \in Names, n \in SequenceNumbers :
          prop_proposal' =
              CheckpointProposal_new(0, n, a, a,
                                     CheckpointProposalContents_new(prop_input))
    /\ prop_call' = None
    /\ UNCHANGED <<prop_input, transportVars, verifyVars, certVars, signedVars>>

\* The sequence number of the signed summary is rewritten (a pub field).
AlterProposal ==
    /\ prop_proposal # None
    /\ \E n \in SequenceNumbers :
          /\ n # prop_proposal.signed_summary.summary.sequence_number
          /\ prop_proposal' =
                 [prop_proposal EXCEPT
                      !.signed_summary.summary.sequence_number = n]
    /\ prop_call' = None
    /\ UNCHANGED <<prop_input, transportVars, verifyVars, certVars, signedVars>>

\* SignedCheckpointProposalSummary::verify on the proposal's signed summary.
VerifyProposal ==
    /\ prop_proposal # None
    /\ \E c \in {committee, CommitteeNext},
          contents \in {None} \cup
              {Some(CheckpointProposalContents_new(t)) : t \in ProposalInputs} :
          prop_call' =
              [committee |-> c, contents |-> contents,
               result |-> SignedCheckpointProposalSummary_verify_contents(
                              prop_proposal.signed_summary, c, contents)]
    /\ UNCHANGED <<prop_input, prop_proposal, transportVars, verifyVars,
                   certVars, signedVars>>

ProposalNext == NewProposal \/ AlterProposal \/ VerifyProposal

SpecProposal == ProposalInit /\ [][ProposalNext]_vars

\* The signature of the proposal verifies against the committee of the call.
ProposalSignatureVerifies ==
    AuthoritySignInfo_verify(prop_proposal.signed_summary.auth_signature,
                             prop_proposal.signed_summary.summary,
                             prop_call.committee).ok

\* C21: verify(committee, Some(contents)) succeeds exactly when the signature
\* is valid and the summary recomputed from the stored sequence number and
\* the contents equals the stored summary: it succeeds for the contents the
\* proposal was built from, fails for any other digest set, and verify fails
\* when the sequence number was changed after signing.
C21_ProposalVerifyContents ==
    prop_call # None =>
        LET signed == prop_proposal.signed_summary
            built == CheckpointProposalContents_new(prop_input)
        IN /\ prop_call.contents # None =>
                /\ prop_call.result.ok
                       <=> /\ ProposalSignatureVerifies
                           /\ CheckpointProposalSummary_new(
                                  signed.summary.sequence_number,
                                  prop_call.contents.some) = signed.summary
                /\ (ProposalSignatureVerifies /\ prop_call.contents.some = built)
                       => prop_call.result = Ok
                /\ prop_call.contents.some # built => ~prop_call.result.ok
                /\ (ProposalSignatureVerifies
                        /\ prop_call.contents.some # built)
                       => prop_call.result = ProposalMismatch
           /\ signed.auth_signature.signature.msg.sequence_number
                  # signed.summary.sequence_number
                  => ~prop_call.result.ok

\* C21 witness: the signed summary of a member's proposal was verified with
\* contents other than those it was built from, and refused for them.
C21_Witness ==
    /\ prop_call # None
    /\ prop_call.contents # None
    /\ ProposalSignatureVerifies
    /\ prop_call.contents.some # CheckpointProposalContents_new(prop_input)
    /\ prop_call.result = ProposalMismatch

\* C22: the content digest and the waypoint of the summary built from a
\* sequence of digests are those of every permutation of the sequence and of
\* every sequence that repeats its elements.
C22_OrderAndRepetition ==
    prop_proposal # None =>
        \A t \in ProposalInputs :
            {t[i] : i \in DOMAIN t} = {prop_input[i] : i \in DOMAIN prop_input}
                => LET summary ==
                           CheckpointProposalSummary_new(
                               1, CheckpointProposalContents_new(t))
                       stored == prop_proposal.signed_summary.summary
                   IN /\ summary.content_digest = stored.content_digest
                      /\ summary.waypoint = stored.waypoint

\* C22 witness: a proposal was built from an unsorted sequence with a
\* repeated digest.
C22_Witness ==
    /\ prop_proposal # None
    /\ prop_input = <<2, 1, 2>>


\* ---------------------------------------------------------------------------
\* The order of the clauses of CheckpointFragment::verify (SpecVerify).
\* ---------------------------------------------------------------------------

InconsistentDiff == Err("Waypoint diff and checkpoint summary inconsistent")

InvalidDiff == Err("Waypoint diff is not valid")

SameSequenceNumber(f) ==
    f.proposer.summary.sequence_number = f.other.summary.sequence_number

ProposerVerify(f) == SignedCheckpointProposalSummary_verify(f.proposer, committee)

OtherVerify(f) == SignedCheckpointProposalSummary_verify(f.other, committee)

DiffOfSummaries(f) ==
    /\ f.data.diff.first.waypoint = f.proposer.summary.waypoint
    /\ f.data.diff.second.waypoint = f.other.summary.waypoint
    /\ f.data.diff.first.key = f.proposer.auth_signature.authority
    /\ f.data.diff.second.key = f.other.auth_signature.authority

CertsVerify(f) == verify_certs(MissingDigests(f), f.data.certs, committee)

SignedCheckpointFragmentMessage_new(message, epoch, signer) ==
    [message |-> message,
     signature |-> AuthoritySignature_new(message, epoch, signer)]

\* CheckpointFragment::to_signed_message_chunks(signer)
to_signed_message_chunks(self, signer) ==
    LET chunks == to_message_chunks(self)
    IN [i \in DOMAIN chunks |->
           SignedCheckpointFragmentMessage_new(
               chunks[i], self.proposer.auth_signature.epoch, signer)]

\* Mutant of SignedCheckpointFragmentMessage_verify: the signature of a chunk
\* is verified under the identity named as other.
SignedCheckpointFragmentMessage_verify_other(self, epoch) ==
    LET proposer == IF self.message.type = "Header"
                    THEN authority(self.message.proposer)
                    ELSE self.message.other
    IN IF AuthoritySignature_verify(self.signature, self.message, epoch, proposer)
       THEN Ok
       ELSE Err("InvalidSignature")

\* SignedCheckpointFragmentMessage::verify(epoch)
SignedCheckpointFragmentMessage_verify(self, epoch) ==
    LET proposer == IF self.message.type = "Header"
                    THEN authority(self.message.proposer)
                    ELSE self.message.proposer
    IN IF AuthoritySignature_verify(self.signature, self.message, epoch, proposer)
       THEN Ok
       ELSE Err("InvalidSignature")

\* ---------------------------------------------------------------------------
\* The signed message specification: a fragment is split into messages signed
\* by some authority, fields of a message may be rewritten in transit, and a
\* receiver verifies a message for an epoch.
\* ---------------------------------------------------------------------------

\* The proposal of ProposalA made in the next epoch.
ProposalA1 == CheckpointProposal_new(1, 1, 1, 1, {1})

SignedFragments ==
    {WithCerts(f, <<>>) : f \in fragment_with(ProposalA, ProposalB)
                               \cup fragment_with(ProposalA1, ProposalB)}
    \cup {Padded(f, 3000001) : f \in fragment_with(ProposalB, ProposalA)}

Epochs == 0 .. 1

SignedInit ==
    /\ fragment \in SignedFragments
    /\ messages = <<>>
    /\ partial = None
    /\ last_chunk = None
    /\ add_result = None
    /\ overwrote = FALSE
    /\ consumed = None
    /\ frag_result = None
    /\ from_header = None
    /\ foreign = FALSE
    /\ VerifyIdle
    /\ CertIdle
    /\ ProposalIdle
    /\ SignedIdle

ToSignedMessageChunks ==
    /\ signed_messages = <<>>
    /\ \E signer \in Names :
          /\ chunk_signer' = signer
          /\ signed_messages' = to_signed_message_chunks(fragment, signer)
    /\ message_call' = None
    /\ UNCHANGED <<transportVars, verifyVars, certVars, proposalVars>>

\* A field of a signed message is rewritten after signing: the proposer named
\* by a chunk, or the chunk count of the header.
RewriteMessage ==
    /\ \E i \in DOMAIN signed_messages :
          LET m == signed_messages[i].message
          IN IF m.type = "Header"
             THEN /\ m = to_message_chunks(fragment)[i]
                  /\ signed_messages' =
                         [signed_messages EXCEPT
                              ![i].message.chunk_count = m.chunk_count + 1]
             ELSE \E n \in Names :
                      /\ n # m.proposer
                      /\ signed_messages' =
                             [signed_messages EXCEPT ![i].message.proposer = n]
    /\ message_call' = None
    /\ UNCHANGED <<chunk_signer, transportVars, verifyVars, certVars,
                   proposalVars>>

VerifyMessage ==
    /\ \E i \in DOMAIN signed_messages, epoch \in Epochs :
          message_call' =
              [index |-> i, epoch |-> epoch,
               result |-> SignedCheckpointFragmentMessage_verify(
                              signed_messages[i], epoch)]
    /\ UNCHANGED <<chunk_signer, signed_messages, transportVars, verifyVars,
                   certVars, proposalVars>>

SignedNext == ToSignedMessageChunks \/ RewriteMessage \/ VerifyMessage

SpecSigned == SignedInit /\ [][SignedNext]_vars

\* The identity a message names as proposer.
NamedProposer(message) ==
    IF message.type = "Header" THEN message.proposer.auth_signature.authority
    ELSE message.proposer

\* C24: every message of to_signed_message_chunks carries the signer's
\* signature over that message and the epoch of the proposer's proposal
\* signature; verify(epoch) succeeds only if the signature is valid for the
\* message as it stands and that epoch under the identity the message names as
\* proposer, so a message signed by another identity, the other party of the
\* fragment included, is rejected.
C24_SignedMessages ==
    /\ signed_messages # <<>> =>
          /\ Len(signed_messages) = Len(to_message_chunks(fragment))
          /\ \A i \in DOMAIN signed_messages :
                signed_messages[i].signature
                    = [key |-> chunk_signer,
                       epoch |-> fragment.proposer.auth_signature.epoch,
                       msg |-> to_message_chunks(fragment)[i]]
    /\ message_call # None =>
          LET signed == signed_messages[message_call.index]
              named == NamedProposer(signed.message)
          IN /\ message_call.result.ok
                    => /\ signed.signature.key = named
                       /\ signed.signature.epoch = message_call.epoch
                       /\ signed.signature.msg = signed.message
             /\ chunk_signer # named => ~message_call.result.ok

\* C24 witness: an unaltered chunk signed by the other party of the fragment
\* was verified for the epoch of the proposal and rejected.
C24_Witness ==
    /\ message_call # None
    /\ message_call.index > 1
    /\ chunk_signer = fragment.other.auth_signature.authority
    /\ signed_messages[message_call.index].message
           = to_message_chunks(fragment)[message_call.index]
    /\ message_call.epoch = fragment.proposer.auth_signature.epoch
    /\ ~message_call.result.ok


\* ---------------------------------------------------------------------------
\* Further properties of the reassembly buffer (Spec).
\* ---------------------------------------------------------------------------

OutOfBound == Err("chunk_id out of bound")

\* C26: in every buffer reached from new(header) by add_chunk calls, failed
\* ones included, every stored index is below chunk_count, so no more than
\* chunk_count indices are stored, and chunk_count, proposer and other are
\* those of the header.
C26_BufferInvariant ==
    \A buffer \in {partial, consumed} \ {None} :
        /\ \A id \in DOMAIN buffer.chunks : id < buffer.chunk_count
        /\ Cardinality(DOMAIN buffer.chunks) <= buffer.chunk_count
        /\ buffer.chunk_count = from_header.chunk_count
        /\ buffer.proposer = from_header.proposer
        /\ buffer.other = from_header.other

\* C26 witness: a buffer of two or more chunks that holds every index has
\* refused a chunk.
C26_Witness ==
    /\ partial # None
    /\ partial.chunk_count >= 2
    /\ Cardinality(DOMAIN partial.chunks) = partial.chunk_count
    /\ add_result = OutOfBound

\* C27: add_chunk accepts a chunk exactly when its chunk_id is below
\* chunk_count; a chunk of another (sequence number, proposer, other) than the
\* header's with such a chunk_id is stored, replacing what the index held.
C27_KeyIgnored ==
    [][AddChunk =>
          LET chunk == last_chunk'
          IN /\ add_result' = Ok <=> chunk.chunk_id < partial.chunk_count
             /\ (/\ message_key(chunk) # message_key(from_header)
                 /\ chunk.chunk_id < partial.chunk_count)
                    => /\ add_result' = Ok
                       /\ partial'.chunks =
                              BTreeMap_insert(partial.chunks, chunk.chunk_id,
                                              chunk.content)]_vars

\* C27 witness: a buffer created from the emitted Header has stored a chunk
\* of another key over other content at its index.
C27_Witness ==
    /\ partial # None
    /\ FromEmittedHeader
    /\ last_chunk # None
    /\ message_key(last_chunk) # message_key(from_header)
    /\ add_result = Ok
    /\ overwrote
    /\ partial.chunks[last_chunk.chunk_id] = last_chunk.content

\* C28: a buffer created from a Header of chunk_count 0 is complete with no
\* chunk stored, refuses every add_chunk as out of bound, and its to_fragment
\* fails to deserialize the empty byte string; to_message_chunks never emits
\* a Header of chunk_count 0.
C28_ZeroChunks ==
    /\ (partial # None /\ from_header.chunk_count = 0)
           => /\ is_complete(partial)
              /\ partial.chunks = <<>>
              /\ last_chunk # None => add_result = OutOfBound
    /\ (consumed # None /\ from_header.chunk_count = 0)
           => /\ consumed.chunks = <<>>
              /\ into_values_flatten(consumed.chunks) = <<>>
              /\ frag_result = Err("Failed to deserialize chunk data")
    /\ messages # <<>> => messages[1].chunk_count > 0

\* C28 witness: a buffer of chunk_count 0 refused a chunk and was then handed
\* to to_fragment.
C28_Witness ==
    /\ consumed # None
    /\ consumed.chunk_count = 0
    /\ last_chunk # None
    /\ add_result = OutOfBound
    /\ frag_result # None
    /\ ~frag_result.ok


\* ---------------------------------------------------------------------------
\* The delivery specification: the transport specification with a buffer that
\* is handed to to_fragment only when complete, under a delivery that keeps
\* delivering a chunk of every index.
\* ---------------------------------------------------------------------------

\* A fragment of one chunk and a fragment of three.
DeliveryFragments ==
    fragment_with(ProposalA, ProposalC)
    \cup {Padded(f, 7000000) : f \in fragment_with(ProposalA, ProposalB)}

DeliveryInit ==
    /\ Init
    /\ fragment \in DeliveryFragments

ToFragmentComplete ==
    /\ partial # None
    /\ is_complete(partial)
    /\ ToFragment

\* add_chunk is called with a chunk of index i.
DeliverIndex(i) == AddChunk /\ last_chunk'.chunk_id = i

DeliveryNext == ToMessageChunks \/ NewPartial \/ AddChunk \/ ToFragmentComplete

SpecDelivery ==
    /\ DeliveryInit
    /\ [][DeliveryNext]_vars
    /\ \A i \in 0 .. MaxChunkCount - 1 : WF_vars(DeliverIndex(i))

\* C25: under a delivery that delivers a chunk of every index at least once,
\* in whatever order and with whatever repetitions, a buffer becomes complete;
\* add_chunk of a chunk with chunk_id < chunk_count never returns an error,
\* the set of stored indices never loses a member, and a complete buffer stays
\* complete under further add_chunk calls.
C25_EventuallyComplete ==
    /\ (partial # None) ~> (partial # None /\ is_complete(partial))
    /\ [][AddChunk =>
             /\ last_chunk'.chunk_id < partial.chunk_count => add_result' = Ok
             /\ DOMAIN partial.chunks \subseteq DOMAIN partial'.chunks
             /\ ~is_complete(partial') => ~is_complete(partial)
             /\ is_complete(partial) => is_complete(partial')]_vars

\* C25 witness: a buffer of three chunks became complete with the chunk of
\* index 0 delivered last, over a chunk already stored there.
C25_Witness ==
    /\ partial # None
    /\ partial.chunk_count = 3
    /\ is_complete(partial)
    /\ last_chunk.chunk_id = 0
    /\ add_result = Ok
    /\ overwrote

====
